---- MODULE Spec2Model ----
(***************************************************************************)
(* A model of simulation/simulation.py: one run of run_simulation_once.    *)
(*                                                                         *)
(* The run is a discrete-event simulation on a SimPy environment.  The     *)
(* state is the environment's clock and event queue, the three machines    *)
(* (Resource users and waiters, failed flag, next_failure_time, busy_time, *)
(* downtime), the job processes (the locals of job_process) and the stats  *)
(* dictionary.  One action processes one event of the queue, as            *)
(* Environment.step does: it sets the clock to the event's time and runs   *)
(* the continuation of the process waiting for it up to its next yield.    *)
(*                                                                         *)
(* Virtual time is counted in ticks of 0.00000025 minutes (a quarter of a  *)
(* micro-minute), so that every literal of the source is a whole number of *)
(* ticks: 1e-6 = 4, 0.0001 = 400, 0.01 = 40000, 0.1 = 400000.  The values  *)
(* drawn by random.expovariate and by the processing-time samplers are     *)
(* chosen from small sets of tick counts: left open, or picked by the      *)
(* state of the module-level generator of `random`.                        *)
(***************************************************************************)
EXTENDS Integers, Sequences, FiniteSets

VARIABLES
    now,                \* env.now
    queue,              \* the environment's event queue, in processing order
    failed,             \* Machine.failed, per machine
    next_failure_time,  \* Machine.next_failure_time, per machine
    busy_time,          \* Machine.busy_time, per machine
    downtime,           \* Machine.downtime, per machine
    down_start,         \* the local down_start of the running fail_and_repair
    users,              \* Resource.users: the jobs holding the machine
    put_queue,          \* Resource.put_queue: the jobs waiting for the machine
    jobs,               \* the job_process instances, by job_id
    generated,          \* stats['generated']
    completed_times,    \* stats['completed_times'] (lead times)
    completion_times,   \* stats['completion_times']
    done,               \* env.run(until=...) has returned
    repairs,            \* history: per machine, the repair intervals <<start, end>>
    requests,           \* history: per machine, the job_ids in the order of their requests
    grants,             \* history: per machine, the job_ids in the order they got the Resource
    completion_order,   \* history: the job_ids in the order of their completion records
    params,             \* the argument params: per machine the signs of mttf and mttr,
                        \* and the sign of arrival_rate
    seed,               \* the argument seed
    rng,                \* the state of the module-level generator of random
    built,              \* run_simulation_once: the machines built so far
    entered,            \* run_simulation_once: env.run has been entered
    error,              \* the exception raised, and whether it has left run_simulation_once
    run,                \* the calls of run_simulation_once made by the caller so far
    first_result        \* the record returned by the caller's first call

vars == <<now, queue, failed, next_failure_time, busy_time, downtime, down_start,
          users, put_queue, jobs, generated, completed_times, completion_times,
          done, repairs, requests, grants, completion_order,
          params, seed, rng, built, entered, error, run, first_result>>

-----------------------------------------------------------------------------
(* Bounds of the model. *)

\* sim_time_minutes, in ticks
Horizon == 1000000
\* the arrival generator admits at most this many jobs before the horizon
MaxJobs == 3
\* each machine fails at most this many times before the horizon
MaxFailures == 2
\* the number of states of the random generator
RngMod == 16
\* the seeds a caller passes are 0..MaxSeed
MaxSeed == 3

(* Literals of the source, in ticks. *)

\* len(machine_names)
NumMachines == 3
\* simpy.Resource(env, capacity=1)
Capacity == 1
\* while remaining > 1e-6
RemainEps == 4
\* max(0.0001, ttf)
TtfFloor == 400
\* max(0.01, process_times[i]())
ProcFloor == 40000
\* env.timeout(0.1)
RecheckDelay == 400000

Machines == 1..NumMachines

\* SimPy's event priorities
URGENT == 0
NORMAL == 1

Max(a, b) == IF a >= b THEN a ELSE b
Min(a, b) == IF a <= b THEN a ELSE b

-----------------------------------------------------------------------------
(* The values the random draws take. *)

\* a delay that ends at or after the horizon, whenever it starts
Far == Horizon

\* random.expovariate(arrival_rate)
InterDraws == {0, 200000, Far}

\* process_times[i]()
ProcDraws(i) == IF i = 1 THEN {300000, Horizon + 2} ELSE {0}

\* random.expovariate(1.0 / self.mttf), in Machine.__init__
FirstTtfDraws(m) ==
    IF m = 1 THEN {300000, Horizon - 1, Far} ELSE IF m = 2 THEN {300000, Far} ELSE {0, Far}

\* random.expovariate(1.0 / self.mttf), after a repair
NextTtfDraws(m) == IF m = 1 THEN {0, Far} ELSE {Far}

\* random.expovariate(1.0 / self.mttr)
RepairDraws(m) ==
    IF m = 1 THEN {0, RecheckDelay - TtfFloor} ELSE IF m = 2 THEN {200000} ELSE {Far}

\* random.expovariate(lambd) for a rate of the given sign: with a negative
\* rate the values are those of the positive rate, negated
Expovariate(sign, S) == IF sign > 0 THEN S ELSE {0 - d : d \in S}

-----------------------------------------------------------------------------
(* The module-level generator of random: its state is a number below       *)
(* RngMod, every draw is a function of the state and moves it on.  Open    *)
(* stands for a generator whose draws are left open.                       *)

Open == 0 - 1
RngStates == 0..(RngMod - 1)

\* no seed was passed (seed=None)
NoSeed == 0 - 1
Seeds == 0..MaxSeed

\* random.seed(seed)
SeedState(sd) == sd % RngMod

\* if seed is not None: random.seed(seed)
Seeded(r, sd) == IF sd # NoSeed THEN SeedState(sd) ELSE r

\* the state of the generator after one draw
Advance(r) == IF r = Open THEN Open ELSE (5 * r + 3) % RngMod

RECURSIVE RngAfter(_, _)
RngAfter(r, k) == IF k = 0 THEN r ELSE RngAfter(Advance(r), k - 1)

\* the k-th smallest element of S
Nth(S, k) == CHOOSE x \in S : Cardinality({y \in S : y < x}) = k - 1

\* the values a draw from S can take in state r of the generator
DrawIn(S, r) ==
    IF r = Open THEN S ELSE {Nth(S, ((r \div 2) % Cardinality(S)) + 1)}

-----------------------------------------------------------------------------
(* The event queue: Environment.schedule and Environment.step. *)

Event(t, p, k, id, s) == [time |-> t, prio |-> p, kind |-> k, id |-> id, step |-> s]

\* heappush(queue, (now + delay, priority, next(eid), event)): the new event
\* goes behind every event of an earlier or equal (time, priority)
Schedule(q, ev) ==
    LET k == Cardinality({i \in 1..Len(q) :
                 \/ q[i].time < ev.time
                 \/ (q[i].time = ev.time /\ q[i].prio <= ev.prio)})
    IN  SubSeq(q, 1, k) \o <<ev>> \o SubSeq(q, k + 1, Len(q))

\* env.timeout(delay)
Timeout(q, delay, k, id, s) == Schedule(q, Event(now' + delay, NORMAL, k, id, s))

\* env.process(generator): the Initialize event
Initialize(q, k, id) == Schedule(q, Event(now', URGENT, k, id, 0))

\* event.succeed(): the event is processed at the current time
Succeed(q, k, id) == Schedule(q, Event(now', NORMAL, k, id, 0))

\* Environment.step: pop the next event and move the clock to it
Pop(k) ==
    /\ entered
    /\ ~done
    /\ ~error.out
    /\ queue # <<>>
    /\ Head(queue).kind = k
    /\ now' = Head(queue).time
    /\ UNCHANGED <<params, seed, built, entered, run, first_result>>

\* no exception raised
NoError == [exc |-> "none", out |-> FALSE]

\* an exception leaves the generator of a process inside the run: the process
\* fails and its event is scheduled (Process._resume)
Fails(q, k, id, exc) ==
    /\ queue' = Succeed(q, k, id)
    /\ error' = [exc |-> exc, out |-> FALSE]

\* an exception leaves run_simulation_once
Raises(exc) == error' = [exc |-> exc, out |-> TRUE]


-----------------------------------------------------------------------------
(* The expressions of the source that the operations below are built from. *)

\* (mutant) the drawn time to failure is used as it is
UnclampedTtf(ttf) == ttf

\* self.env.now + max(0.0001, ttf)
ClampTtf(ttf) == Max(TtfFloor, ttf)

\* repair_time = random.expovariate(1.0 / self.mttr)
RepairTime(d) == d

\* proc_time = max(0.01, process_times[i]())
ClampProc(d) == Max(ProcFloor, d)

\* (mutant) the monitor waits for the absolute failure time
MonitorWaitAbsolute(nft, t) == Max(0, nft)

\* wait = max(0.0, machine.next_failure_time - env.now)
MonitorWait(nft, t) == Max(0, nft - t)

\* while remaining > 1e-6
LoopContinues(remaining) == remaining > RemainEps

\* t_until_fail = machine.next_failure_time - env.now
TimeUntilFail(nft, t) == nft - t

\* (mutant) the step ignores the next failure
StepIgnoringFailure(remaining, t_until_fail) == remaining

\* step = min(remaining, t_until_fail)
StepLen(remaining, t_until_fail) == Min(remaining, t_until_fail)

\* (mutant) a stalled job looks at the machine half as often
StallWaitDouble == 2 * RecheckDelay

\* yield env.timeout(0.1), the wait of a job that finds its machine failed
StallWait == RecheckDelay

\* (mutant) the downtime is credited up to now, not since the failure
DowntimeSinceZero(dt, t, start) == dt + t

\* self.downtime += self.env.now - down_start
DowntimeAfter(dt, t, start) == dt + (t - start)

\* machine.busy_time += proc_time
BusyAfter(busy, proc_time) == busy + proc_time

\* (mutant) the spawned job is not counted
GeneratedNotCounted(g) == g

\* stats['generated'] += 1
GeneratedAfter(g) == g + 1

\* (mutant) the loop over the machines stops one stage early
MoreStagesOffByOne(m) == m < NumMachines - 1

\* for i, machine in enumerate(machines): stage m is followed by another one
MoreStages(m) == m < NumMachines

\* while env.now < sim_time
GeneratorContinues(t) == t < Horizon

\* (mutant) the run stops one re-check delay after the horizon
StopLate == Horizon + RecheckDelay

\* env.run(until=sim_time_minutes): the time of the stopping event
StopTime == Horizon

\* (mutant) the capacity test off by one
SlotFreeOffByOne(u) == Len(u) <= Capacity

\* Resource._do_put: the request is granted while a slot is free
SlotFree(u) == Len(u) < Capacity

\* (mutant) the most recent request is tried first
GrantLast(pq) == Len(pq)

\* BaseResource._trigger_put: the waiting request that is tried first
GrantIndex(pq) == 1

\* the draws left to a machine and to the arrival generator: beyond the
\* bounds of the model the next failure and the next arrival fall past the horizon
TtfChoices(m) ==
    IF Len(repairs[m]) < MaxFailures
    THEN Expovariate(params.mttf[m], NextTtfDraws(m)) ELSE {Far}
InterChoices(n) ==
    Expovariate(params.arrival_rate, IF n < MaxJobs THEN InterDraws ELSE {Far})

RemoveAt(s, k) == SubSeq(s, 1, k - 1) \o SubSeq(s, k + 1, Len(s))

\* (mutant) the release leaves the job among the users
KeepJob(s, j) == s

\* Resource.release: the request of job j is taken out of the users
RemoveJob(s, j) == SelectSeq(s, LAMBDA x : x # j)

\* BaseResource._trigger_put on machine m, given its users u, its waiters pq
\* and the queue q: the result is the three of them afterwards
TriggerPut(u, pq, q) ==
    IF pq # <<>> /\ SlotFree(u)
    THEN LET k == GrantIndex(pq)
         IN  [users |-> Append(u, pq[k]), put_queue |-> RemoveAt(pq, k),
              queue |-> Succeed(q, "req", pq[k])]
    ELSE [users |-> u, put_queue |-> pq, queue |-> q]

\* no time recorded yet
NoTime == 0 - 1

\* a job process that was started and has not run yet; the fields after step
\* are history: when it was spawned, when it last took the zero-delay wait,
\* and per stage the drawn time, when the Resource was requested and granted,
\* and when the stage ended
NewJob(t) ==
          [pc |-> "init", arrival |-> NoTime, i |-> 0, proc_time |-> 0,
           remaining |-> 0, step |-> 0, spawn_at |-> t, deferred_at |-> NoTime,
           procs |-> [m \in Machines |-> 0],
           req_at |-> [m \in Machines |-> NoTime],
           start_at |-> [m \in Machines |-> NoTime],
           end_at |-> [m \in Machines |-> NoTime]]

-----------------------------------------------------------------------------
(* Init: run_simulation_once up to the call of env.run: the machines are   *)
(* built (each draws its first failure time), their failure monitors and   *)
(* the arrival generator are started, and env.run schedules its stop.      *)

InitQueue ==
    [m \in Machines |-> Event(0, URGENT, "init_monitor", m, 0)]
        \o <<Event(0, URGENT, "init_gen", 0, 0)>>
        \o <<Event(StopTime, URGENT, "until", 0, 0)>>

\* Machine.__init__: schedule_next_failure at time 0, in state r of the generator
FirstFailureTimes(m, r) ==
    {0 + ClampTtf(d) : d \in DrawIn(Expovariate(params.mttf[m], FirstTtfDraws(m)), r)}

\* the failure times of the machines built one after the other, the first
\* of them in state r0 of the generator
BuiltFailureTimes(r0) ==
    {f \in [Machines -> UNION {FirstFailureTimes(m, RngAfter(r0, m - 1)) : m \in Machines}] :
         \A m \in Machines : f[m] \in FirstFailureTimes(m, RngAfter(r0, m - 1))}

\* mttf, mttr and arrival_rate positive, one mttf and mttr per machine
ValidParams ==
    [mttf |-> [m \in Machines |-> 1], mttr |-> [m \in Machines |-> 1], arrival_rate |-> 1]

\* the state at the call of env.run, the machines having been built with the
\* generator in state r0
Built(r0) ==
    /\ now = 0
    /\ queue = InitQueue
    /\ failed = [m \in Machines |-> FALSE]
    /\ next_failure_time \in BuiltFailureTimes(r0)
    /\ rng = RngAfter(r0, NumMachines)
    /\ built = NumMachines
    /\ entered = TRUE
    /\ error = NoError
    /\ busy_time = [m \in Machines |-> 0]
    /\ downtime = [m \in Machines |-> 0]
    /\ down_start = [m \in Machines |-> NoTime]
    /\ users = [m \in Machines |-> <<>>]
    /\ put_queue = [m \in Machines |-> <<>>]
    /\ jobs = <<>>
    /\ generated = 0
    /\ completed_times = <<>>
    /\ completion_times = <<>>
    /\ done = FALSE
    /\ repairs = [m \in Machines |-> <<>>]
    /\ requests = [m \in Machines |-> <<>>]
    /\ grants = [m \in Machines |-> <<>>]
    /\ completion_order = <<>>

\* one call with valid parameters, the draws left open
Init ==
    /\ params = ValidParams
    /\ seed = NoSeed
    /\ run = 1
    /\ first_result = <<>>
    /\ Built(Open)

machineVars == <<failed, next_failure_time, busy_time, downtime, down_start, repairs>>
resourceVars == <<users, put_queue>>
statsVars == <<generated, completed_times, completion_times, completion_order>>
historyVars == <<requests, grants>>
drawVars == <<rng, error>>

-----------------------------------------------------------------------------
(* machine_failure_monitor and Machine.fail_and_repair *)

\* the top of the monitor's loop: wait until next_failure_time
MonitorLoop(q, m) ==
    Timeout(q, MonitorWait(next_failure_time[m], now'), "mon_to", m, 0)

\* the monitor process starts
MonitorStart ==
    /\ Pop("init_monitor")
    /\ queue' = MonitorLoop(Tail(queue), Head(queue).id)
    /\ UNCHANGED <<machineVars, resourceVars, jobs, statsVars, historyVars, done, drawVars>>

\* the monitor's wait is over: it starts fail_and_repair and waits for it
MonitorWake ==
    /\ Pop("mon_to")
    /\ queue' = Initialize(Tail(queue), "init_far", Head(queue).id)
    /\ UNCHANGED <<machineVars, resourceVars, jobs, statsVars, historyVars, done, drawVars>>

\* fail_and_repair up to its yield: the machine fails and draws its repair time
FailStart ==
    /\ Pop("init_far")
    /\ LET m == Head(queue).id
       IN  /\ failed' = [failed EXCEPT ![m] = TRUE]
           /\ down_start' = [down_start EXCEPT ![m] = now']
           /\ IF params.mttr[m] = 0
              THEN \* 1.0 / self.mttr
                   /\ Fails(Tail(queue), "far_fail", m, "ZeroDivisionError")
                   /\ UNCHANGED <<repairs, rng>>
              ELSE \E d \in DrawIn(Expovariate(params.mttr[m], RepairDraws(m)), rng) :
                     /\ rng' = Advance(rng)
                     /\ IF RepairTime(d) < 0
                        THEN \* env.timeout of a negative delay
                             /\ Fails(Tail(queue), "far_fail", m, "ValueError")
                             /\ UNCHANGED repairs
                        ELSE /\ queue' = Timeout(Tail(queue), RepairTime(d), "rep_to", m, 0)
                             /\ repairs' = [repairs EXCEPT
                                              ![m] = Append(@, <<now', now' + RepairTime(d)>>)]
                             /\ UNCHANGED error
    /\ UNCHANGED <<next_failure_time, busy_time, downtime, resourceVars, jobs,
                   statsVars, historyVars, done>>

\* fail_and_repair after its yield: the machine is up again, the downtime is
\* credited and the next failure is drawn; the process ends
RepairEnd ==
    /\ Pop("rep_to")
    /\ LET m == Head(queue).id
       IN  \E d \in DrawIn(TtfChoices(m), rng) :
             /\ rng' = Advance(rng)
             /\ failed' = [failed EXCEPT ![m] = FALSE]
             /\ downtime' = [downtime EXCEPT ![m] = DowntimeAfter(@, now', down_start[m])]
             /\ next_failure_time' = [next_failure_time EXCEPT ![m] = now' + ClampTtf(d)]
             /\ queue' = Succeed(Tail(queue), "far_done", m)
    /\ UNCHANGED <<busy_time, down_start, repairs, resourceVars, jobs, statsVars,
                   historyVars, done, error>>

\* the monitor resumes once fail_and_repair has ended, and loops
MonitorResume ==
    /\ Pop("far_done")
    /\ queue' = MonitorLoop(Tail(queue), Head(queue).id)
    /\ UNCHANGED <<machineVars, resourceVars, jobs, statsVars, historyVars, done, drawVars>>

-----------------------------------------------------------------------------
(* job_generator *)

\* the generator's loop test and, when it passes, its next wait
GeneratorLoop(q, n) ==
    IF GeneratorContinues(now')
    THEN IF params.arrival_rate = 0
         THEN \* random.expovariate(0)
              /\ Fails(q, "top_fail", 0, "ZeroDivisionError")
              /\ UNCHANGED rng
         ELSE \E inter \in DrawIn(InterChoices(n), rng) :
                /\ rng' = Advance(rng)
                /\ IF inter < 0
                   THEN \* env.timeout of a negative delay
                        Fails(q, "top_fail", 0, "ValueError")
                   ELSE /\ queue' = Timeout(q, inter, "gen_to", 0, 0)
                        /\ UNCHANGED error
    ELSE /\ queue' = Succeed(q, "proc_end", 0)
         /\ UNCHANGED drawVars

\* the generator process starts: job_id = 0
GeneratorStart ==
    /\ Pop("init_gen")
    /\ GeneratorLoop(Tail(queue), 0)
    /\ UNCHANGED <<machineVars, resourceVars, jobs, statsVars, historyVars, done>>

\* the generator's wait is over: it starts a job process, counts it and loops
GeneratorWake ==
    /\ Pop("gen_to")
    /\ jobs' = Append(jobs, NewJob(now'))
    /\ generated' = GeneratedAfter(generated)
    /\ GeneratorLoop(Initialize(Tail(queue), "init_job", Len(jobs) + 1), Len(jobs) + 1)
    /\ UNCHANGED <<machineVars, resourceVars, completed_times, completion_times,
                   completion_order, historyVars, done>>

-----------------------------------------------------------------------------
(* job_process *)

\* the top of the loop over the machines, for stage m of job j: the processing
\* time is drawn, the machine's Resource is requested and the job waits for it.
\* js, u, pq and q are the jobs, users, put queues and event queue so far.
EnterStage(j, m, js, u, pq, q) ==
    \E d \in DrawIn(ProcDraws(m), rng) :
        LET r == TriggerPut(u[m], Append(pq[m], j), q)
        IN  /\ rng' = Advance(rng)
            /\ jobs' = [js EXCEPT ![j].pc = "request", ![j].i = m,
                                 ![j].proc_time = ClampProc(d),
                                 ![j].procs[m] = ClampProc(d),
                                 ![j].req_at[m] = now']
            /\ users' = [u EXCEPT ![m] = r.users]
            /\ put_queue' = [pq EXCEPT ![m] = r.put_queue]
            /\ queue' = r.queue
            /\ requests' = [requests EXCEPT ![m] = Append(@, j)]

\* the job process starts: arrival = env.now, and the first stage is entered
JobStart ==
    /\ Pop("init_job")
    /\ LET j == Head(queue).id
       IN  EnterStage(j, 1, [jobs EXCEPT ![j].arrival = now'], users, put_queue,
                      Tail(queue))
    /\ UNCHANGED <<machineVars, statsVars, grants, done, error>>

\* the while loop of job j, holding machine jobs[j].i with `remaining` left,
\* up to its next yield; q is the event queue so far
JobLoop(j, remaining, js0, q) ==
    LET m == jobs[j].i
        js == [js0 EXCEPT ![j].remaining = remaining, ![j].step = 0]
    IN  IF LoopContinues(remaining)
        THEN /\ IF failed[m]
                THEN /\ jobs' = [js EXCEPT ![j].pc = "stalled"]
                     /\ queue' = Timeout(q, StallWait, "job_to", j, 0)
                ELSE IF TimeUntilFail(next_failure_time[m], now') <= 0
                THEN /\ jobs' = [js EXCEPT ![j].pc = "deferred", ![j].deferred_at = now']
                     /\ queue' = Timeout(q, 0, "job_to", j, 0)
                ELSE LET step == StepLen(remaining,
                                         TimeUntilFail(next_failure_time[m], now'))
                     IN  /\ jobs' = [js EXCEPT ![j].pc = "stepping", ![j].step = step]
                         /\ queue' = Timeout(q, step, "job_to", j, step)
             /\ UNCHANGED <<busy_time, resourceVars, statsVars, requests, rng>>
        ELSE \* the stage is finished: credit busy_time, release the Resource
             LET u1 == [users EXCEPT ![m] = RemoveJob(@, j)]
                 q1 == Succeed(q, "rel", m)
                 js1 == [js EXCEPT ![j].end_at[m] = now']
             IN  /\ busy_time' = [busy_time EXCEPT ![m] = BusyAfter(@, jobs[j].proc_time)]
                 /\ IF MoreStages(m)
                    THEN /\ EnterStage(j, m + 1, js1, u1, put_queue, q1)
                         /\ UNCHANGED statsVars
                    ELSE /\ jobs' = [js1 EXCEPT ![j].pc = "done"]
                         /\ users' = u1
                         /\ queue' = Succeed(q1, "proc_end", j)
                         /\ completed_times' = Append(completed_times, now' - jobs[j].arrival)
                         /\ completion_times' = Append(completion_times, now')
                         /\ completion_order' = Append(completion_order, j)
                         /\ UNCHANGED <<put_queue, generated, requests, rng>>

\* the request of job j is granted: remaining = proc_time, and the loop starts
JobGranted ==
    /\ Pop("req")
    /\ LET j == Head(queue).id
       IN  JobLoop(j, jobs[j].proc_time, [jobs EXCEPT ![j].start_at[jobs[j].i] = now'],
                    Tail(queue))
    /\ grants' = [grants EXCEPT ![jobs[Head(queue).id].i] = Append(@, Head(queue).id)]
    /\ UNCHANGED <<failed, next_failure_time, downtime, down_start, repairs, done, error>>

\* a timeout of job j inside the loop is over: after a processing step
\* remaining -= step; after the two re-check waits the loop just continues
JobTimeout ==
    /\ Pop("job_to")
    /\ LET j == Head(queue).id
       IN  JobLoop(j, jobs[j].remaining - Head(queue).step, jobs, Tail(queue))
    /\ UNCHANGED <<failed, next_failure_time, downtime, down_start, repairs, grants, done,
                   error>>

\* the Release event of machine m is processed: its callback grants the
\* Resource to the next waiting request
ReleaseDone ==
    /\ Pop("rel")
    /\ LET m == Head(queue).id
           r == TriggerPut(users[m], put_queue[m], Tail(queue))
       IN  /\ users' = [users EXCEPT ![m] = r.users]
           /\ put_queue' = [put_queue EXCEPT ![m] = r.put_queue]
           /\ queue' = r.queue
    /\ UNCHANGED <<machineVars, jobs, statsVars, historyVars, done, drawVars>>

\* the event of a process that has ended is processed: nothing waits for it
ProcessEnd ==
    /\ Pop("proc_end")
    /\ queue' = Tail(queue)
    /\ UNCHANGED <<machineVars, resourceVars, jobs, statsVars, historyVars, done, drawVars>>

-----------------------------------------------------------------------------
(* run_simulation_once: env.run(until=sim_time_minutes) *)

\* the stopping event is processed: the run ends with the clock at its time
RunStop ==
    /\ Pop("until")
    /\ done' = TRUE
    /\ queue' = Tail(queue)
    /\ UNCHANGED <<machineVars, resourceVars, jobs, statsVars, historyVars, drawVars>>

Next ==
    \/ MonitorStart
    \/ MonitorWake
    \/ FailStart
    \/ RepairEnd
    \/ MonitorResume
    \/ GeneratorStart
    \/ GeneratorWake
    \/ JobStart
    \/ JobGranted
    \/ JobTimeout
    \/ ReleaseDone
    \/ ProcessEnd
    \/ RunStop

Spec == Init /\ [][Next]_vars

-----------------------------------------------------------------------------
(* run_simulation_once: the KPIs and the returned record.  A quotient is   *)
(* kept as its numerator and denominator.                                  *)

\* one minute, in ticks
TicksPerMinute == 10 * RecheckDelay

RECURSIVE SumSeq(_)
SumSeq(s) == IF s = <<>> THEN 0 ELSE Head(s) + SumSeq(Tail(s))

\* (mutant) no completed job gives an average of zero
AvgLeadTimeZero(ct) ==
    IF ct = <<>> THEN [none |-> FALSE, sum |-> 0, n |-> 1]
    ELSE [none |-> FALSE, sum |-> SumSeq(ct), n |-> Len(ct)]

\* statistics.mean(stats['completed_times']) if stats['completed_times'] else None
AvgLeadTime(ct) ==
    IF ct = <<>> THEN [none |-> TRUE, sum |-> 0, n |-> 0]
    ELSE [none |-> FALSE, sum |-> SumSeq(ct), n |-> Len(ct)]

\* len(stats['completion_times']) / (sim_time_minutes/60.0)
Throughput(n) == [num |-> n * 60 * TicksPerMinute, den |-> Horizon]

\* the dictionary returned by run_simulation_once
Result ==
    [throughput_per_hr |-> Throughput(Len(completion_times)),
     avg_lead_time_min |-> AvgLeadTime(completed_times),
     generated |-> generated,
     completed |-> Len(completion_times),
     busy_time |-> busy_time,
     downtime |-> downtime]

-----------------------------------------------------------------------------
(* run_simulation_once from its first line, for any params: the machines   *)
(* are built one after the other, each followed by the start of its        *)
(* monitor; then the generator is started and env.run is entered.  An      *)
(* exception raised inside a process travels with the event of the failed  *)
(* process and leaves env.run when no process waits for that event.        *)

\* params as callers may pass them: valid; mttf or mttr one entry short; a
\* zero or negative mttf, mttr or arrival_rate
ParamsChoices ==
    {ValidParams,
     [ValidParams EXCEPT !.mttf = <<1, 1>>],
     [ValidParams EXCEPT !.mttr = <<1, 1>>],
     [ValidParams EXCEPT !.mttf = <<1, 0, 1>>],
     [ValidParams EXCEPT !.mttf = <<0 - 1, 1, 1>>],
     [ValidParams EXCEPT !.mttr = <<0, 1, 1>>],
     [ValidParams EXCEPT !.mttr = <<0 - 1, 1, 1>>],
     [ValidParams EXCEPT !.arrival_rate = 0],
     [ValidParams EXCEPT !.arrival_rate = 0 - 1]}

\* the state after env = simpy.Environment()
ConfigInit ==
    /\ params \in ParamsChoices
    /\ seed = NoSeed
    /\ run = 1
    /\ first_result = <<>>
    /\ rng = Open
    /\ built = 0
    /\ entered = FALSE
    /\ error = NoError
    /\ now = 0
    /\ queue = <<>>
    /\ failed = [m \in Machines |-> FALSE]
    /\ next_failure_time = [m \in Machines |-> NoTime]
    /\ busy_time = [m \in Machines |-> 0]
    /\ downtime = [m \in Machines |-> 0]
    /\ down_start = [m \in Machines |-> NoTime]
    /\ users = [m \in Machines |-> <<>>]
    /\ put_queue = [m \in Machines |-> <<>>]
    /\ jobs = <<>>
    /\ generated = 0
    /\ completed_times = <<>>
    /\ completion_times = <<>>
    /\ done = FALSE
    /\ repairs = [m \in Machines |-> <<>>]
    /\ requests = [m \in Machines |-> <<>>]
    /\ grants = [m \in Machines |-> <<>>]
    /\ completion_order = <<>>

\* one round of the loop over machine_names: Machine(env, name,
\* params['mttf'][i], params['mttr'][i]) and env.process(monitor)
BuildMachine ==
    /\ ~entered
    /\ ~error.out
    /\ built < NumMachines
    /\ now' = now
    /\ LET m == built + 1
       IN  IF Len(params.mttf) < m \/ Len(params.mttr) < m
           THEN /\ Raises("IndexError")
                /\ UNCHANGED <<next_failure_time, rng, queue, built>>
           ELSE IF params.mttf[m] = 0
           THEN \* 1.0 / self.mttf
                /\ Raises("ZeroDivisionError")
                /\ UNCHANGED <<next_failure_time, rng, queue, built>>
           ELSE /\ \E t \in FirstFailureTimes(m, rng) :
                      next_failure_time' = [next_failure_time EXCEPT ![m] = t]
                /\ rng' = Advance(rng)
                /\ queue' = Initialize(queue, "init_monitor", m)
                /\ built' = m
                /\ UNCHANGED error
    /\ UNCHANGED <<failed, busy_time, downtime, down_start, repairs, resourceVars,
                   jobs, statsVars, historyVars, done, params, seed, entered, run,
                   first_result>>

\* env.process(job_generator(...)) and the entry of env.run(until=...)
StartRun ==
    /\ ~entered
    /\ ~error.out
    /\ built = NumMachines
    /\ now' = now
    /\ entered' = TRUE
    /\ queue' = Schedule(Initialize(queue, "init_gen", 0),
                         Event(StopTime, URGENT, "until", 0, 0))
    /\ UNCHANGED <<machineVars, resourceVars, jobs, statsVars, historyVars, done,
                   drawVars, params, seed, built, run, first_result>>

\* the event of the failed fail_and_repair is processed: the exception is
\* thrown into the monitor waiting for it, which fails in turn
MonitorFails ==
    /\ Pop("far_fail")
    /\ queue' = Succeed(Tail(queue), "top_fail", Head(queue).id)
    /\ UNCHANGED <<machineVars, resourceVars, jobs, statsVars, historyVars, done, drawVars>>

\* the event of a failed process that nothing waits for is processed:
\* Environment.step raises its exception, which leaves env.run
RunRaises ==
    /\ Pop("top_fail")
    /\ Raises(error.exc)
    /\ queue' = Tail(queue)
    /\ UNCHANGED <<machineVars, resourceVars, jobs, statsVars, historyVars, done, rng>>

ConfigNext ==
    \/ BuildMachine
    \/ StartRun
    \/ Next
    \/ MonitorFails
    \/ RunRaises

ConfigSpec == ConfigInit /\ [][ConfigNext]_vars

-----------------------------------------------------------------------------
(* A caller that calls run_simulation_once twice with the same arguments,  *)
(* the generator of random being in any state at the first call.           *)

DetInit ==
    /\ params = ValidParams
    /\ seed \in Seeds \cup {NoSeed}
    /\ run = 1
    /\ first_result = <<>>
    /\ \E g0 \in RngStates : Built(Seeded(g0, seed))

\* the first call has returned its record; the second call, up to env.run
SecondCall ==
    /\ done
    /\ run = 1
    /\ run' = 2
    /\ first_result' = <<Result>>
    /\ now' = 0
    /\ queue' = InitQueue
    /\ failed' = [m \in Machines |-> FALSE]
    /\ next_failure_time' \in BuiltFailureTimes(Seeded(rng, seed))
    /\ rng' = RngAfter(Seeded(rng, seed), NumMachines)
    /\ busy_time' = [m \in Machines |-> 0]
    /\ downtime' = [m \in Machines |-> 0]
    /\ down_start' = [m \in Machines |-> NoTime]
    /\ users' = [m \in Machines |-> <<>>]
    /\ put_queue' = [m \in Machines |-> <<>>]
    /\ jobs' = <<>>
    /\ generated' = 0
    /\ completed_times' = <<>>
    /\ completion_times' = <<>>
    /\ done' = FALSE
    /\ repairs' = [m \in Machines |-> <<>>]
    /\ requests' = [m \in Machines |-> <<>>]
    /\ grants' = [m \in Machines |-> <<>>]
    /\ completion_order' = <<>>
    /\ UNCHANGED <<params, seed, built, entered, error>>

DetNext == Next \/ SecondCall

DetSpec == DetInit /\ [][DetNext]_vars

-----------------------------------------------------------------------------
(* The claims. *)

JobIds == 1..Len(jobs)
Elems(s) == {s[k] : k \in 1..Len(s)}

\* job j is inside the with block of stage m, past the grant of its request
InLoop(j, m) == jobs[j].i = m /\ jobs[j].pc \in {"stalled", "deferred", "stepping"}

\* C1: every machine's Resource is held by at most one job process: it has at
\* most one user, at most one job is inside the loop of its stage, and that
\* job is the user.
MutualExclusion ==
    \A m \in Machines :
        /\ Len(users[m]) <= 1
        /\ Cardinality({j \in JobIds : InLoop(j, m)}) <= 1
        /\ \A j \in JobIds : InLoop(j, m) => users[m] = <<j>>

\* a failed machine that is held by one job while another job waits for it
MutualExclusionWitness ==
    \E m \in Machines : failed[m] /\ Len(users[m]) = 1 /\ put_queue[m] # <<>>

\* C3: the number of recorded completions is at least 0 and never above the
\* number of jobs counted as generated, in every state and so in the result.
CompletedWithinGenerated ==
    /\ 0 <= Len(completion_times)
    /\ Len(completion_times) <= generated
    /\ Len(completed_times) = Len(completion_times)

\* a run that has ended with some jobs completed and some not
CompletedWithinGeneratedWitness ==
    done /\ Len(completion_times) >= 1 /\ Len(completion_times) < generated

\* C8: every job that was spawned is counted in generated and was spawned, and
\* started, strictly before the horizon.
ArrivalsBelowHorizon ==
    /\ generated = Len(jobs)
    /\ \A j \in JobIds :
          /\ jobs[j].spawn_at < Horizon
          /\ jobs[j].arrival < Horizon

\* a run that has ended with a backlog at a machine and with the generator
\* waiting for an arrival that falls at or after the horizon
ArrivalsBelowHorizonWitness ==
    /\ done
    /\ generated >= 2
    /\ \E m \in Machines : put_queue[m] # <<>>
    /\ \E k \in 1..Len(queue) : queue[k].kind = "gen_to" /\ queue[k].time >= Horizon

\* C10: every recorded completion time is strictly below the horizon, and the
\* completion records are those of exactly the jobs that ended their last
\* stage, one record each; a job that has not ended its last stage has none.
HorizonAbandonment ==
    /\ \A k \in 1..Len(completion_times) : completion_times[k] < Horizon
    /\ Len(completion_order) = Len(completion_times)
    /\ Cardinality(Elems(completion_order)) = Len(completion_order)
    /\ Elems(completion_order) = {j \in JobIds : jobs[j].end_at[NumMachines] # NoTime}
    /\ \A j \in JobIds : jobs[j].end_at[NumMachines] < Horizon

\* a run that has ended with one job completed and another one abandoned
\* while it held a machine
HorizonAbandonmentWitness ==
    /\ done
    /\ completion_order # <<>>
    /\ \E j \in JobIds, m \in Machines : InLoop(j, m) /\ jobs[j].remaining > RemainEps

\* no machine has failed so far
NoFailures == \A m \in Machines : repairs[m] = <<>>

\* every job drew the same processing time at each stage
FixedProc ==
    \A m \in Machines : \A j, k \in JobIds :
        (jobs[j].procs[m] # 0 /\ jobs[k].procs[m] # 0) => jobs[j].procs[m] = jobs[k].procs[m]

IsPrefix(s, t) == Len(s) <= Len(t) /\ SubSeq(t, 1, Len(s)) = s

\* job k requested machine m right behind job j, at the same time, and j got
\* the machine at once
RequestedTogether(j, k, m) ==
    /\ jobs[j].req_at[m] # NoTime
    /\ jobs[k].req_at[m] = jobs[j].req_at[m]
    /\ jobs[j].start_at[m] = jobs[j].req_at[m]
    /\ \E n \in 1..(Len(requests[m]) - 1) : requests[m][n] = j /\ requests[m][n + 1] = k

\* C2: with no machine failure and one fixed processing time per stage, the
\* jobs complete in the order of their arrival (the order of their job_ids),
\* each machine is granted in the order of the requests, and of two jobs that
\* request an idle machine at the same time t with processing time P the first
\* ends the stage at t + P and the second at t + 2P.
FifoFairness ==
    (NoFailures /\ FixedProc) =>
        /\ \A a, b \in 1..Len(completion_order) :
              a < b => completion_order[a] < completion_order[b]
        /\ \A m \in Machines : IsPrefix(grants[m], requests[m])
        /\ \A m \in Machines : \A j, k \in JobIds :
              RequestedTogether(j, k, m) =>
                 /\ jobs[j].end_at[m] \in {NoTime, jobs[j].req_at[m] + jobs[j].procs[m]}
                 /\ jobs[k].end_at[m] \in {NoTime, jobs[j].req_at[m] + 2 * jobs[j].procs[m]}

\* three jobs arrived together, no machine has failed, the processing times
\* are fixed, the first two ended the first stage one and two processing
\* times after their arrival, and both have completed
FifoFairnessWitness ==
    /\ NoFailures
    /\ FixedProc
    /\ Len(jobs) = 3
    /\ RequestedTogether(1, 2, 1)
    /\ jobs[3].req_at[1] = jobs[1].req_at[1]
    /\ jobs[1].end_at[1] = jobs[1].arrival + jobs[1].procs[1]
    /\ jobs[2].end_at[1] = jobs[1].arrival + 2 * jobs[1].procs[1]
    /\ completion_order = <<1, 2>>

RECURSIVE OverlapSum(_)
\* the total length of the parts of the repair intervals that lie in [0, Horizon]
OverlapSum(ivs) ==
    IF ivs = <<>> THEN 0
    ELSE Max(0, Min(Head(ivs)[2], Horizon) - Head(ivs)[1]) + OverlapSum(Tail(ivs))

\* C4: when the run has ended, every machine's downtime is the total length of
\* its repair intervals inside [0, horizon], a repair still in progress at the
\* horizon counting from its start to the horizon.
DowntimeIsRepairOverlap ==
    done => \A m \in Machines : downtime[m] = OverlapSum(repairs[m])

\* C5: when the run has ended, every machine's busy_time lies in [0, horizon].
BusyWithinHorizon ==
    done => \A m \in Machines : 0 <= busy_time[m] /\ busy_time[m] <= Horizon

\* C6: while a machine is failed and virtual time passes, the job holding its
\* Resource makes no progress: its remaining processing time does not go down
\* and the machine's busy_time does not change.
NoProgressWhileFailed ==
    [][\A m \in Machines :
          (failed[m] /\ now' > now) =>
             /\ busy_time'[m] = busy_time[m]
             /\ \A j \in Elems(users[m]) : jobs'[j].remaining >= jobs[j].remaining]_vars

\* a failed machine held by a stalled job with part of its processing done,
\* some time into the repair
NoProgressWhileFailedWitness ==
    \E m \in Machines : \E j \in JobIds :
        /\ failed[m]
        /\ users[m] = <<j>>
        /\ jobs[j].pc = "stalled"
        /\ 0 < jobs[j].remaining /\ jobs[j].remaining < jobs[j].proc_time
        /\ now > down_start[m]

\* C7: a change of a machine's failed flag leaves its holder and its waiting
\* queue as they are, and a job gives up a machine only when it has finished
\* the full processing amount of the stage (nothing remains).
FailureKeepsHolder ==
    [][\A m \in Machines :
          /\ failed'[m] # failed[m] =>
                (users'[m] = users[m] /\ put_queue'[m] = put_queue[m])
          /\ \A j \in Elems(users[m]) \ Elems(users'[m]) : jobs'[j].remaining = 0]_vars

\* C9: the run ends, with the clock at the horizon.
RunTerminates == <>(done /\ now = Horizon)

\* a run that has ended at the horizon with a job stalled on a failed
\* machine, after some job took the zero-delay wait, and with a backlog
RunTerminatesWitness ==
    /\ done
    /\ now = Horizon
    /\ \E j \in JobIds : jobs[j].deferred_at # NoTime
    /\ \E j \in JobIds : jobs[j].pc = "stalled"
    /\ \E m \in Machines : put_queue[m] # <<>>

\* the scheduler processes the next event as long as the run has not ended
FairSpec == Spec /\ WF_vars(Next)

\* the lead times of the completed jobs, from the history of their stages
LeadTimes == [k \in 1..Len(completion_order) |->
                 jobs[completion_order[k]].end_at[NumMachines]
                     - jobs[completion_order[k]].arrival]

\* C13: when the run has ended with no completed job, the average lead time of
\* the result is the no-data sentinel (not a number, so not zero) and the
\* throughput is 0; with completed jobs it is the mean of their lead times
\* (their sum over their number).
LeadTimeSentinel ==
    done =>
       IF Len(completion_order) = 0
       THEN /\ Result.avg_lead_time_min.none
            /\ Result.throughput_per_hr.num = 0
            /\ Result.completed = 0
       ELSE /\ ~Result.avg_lead_time_min.none
            /\ Result.avg_lead_time_min.sum = SumSeq(LeadTimes)
            /\ Result.avg_lead_time_min.n = Len(completion_order)

\* a run that has ended with jobs generated and none of them completed
LeadTimeSentinelWitness ==
    done /\ generated >= 1 /\ completed_times = <<>>

\* C18: every time next_failure_time is set, at construction and at the end
\* of every repair, it lies strictly after the virtual time at which it was
\* computed, whatever the drawn time to failure (0 included).
FailureTimeAhead ==
    /\ \A m \in Machines : next_failure_time[m] > now
    /\ [][\A m \in Machines :
             (next_failure_time'[m] # next_failure_time[m] \/ (failed[m] /\ ~failed'[m]))
                 => next_failure_time'[m] > now']_vars

\* a repair has ended and the time to failure drawn after it was below the floor
FailureTimeAheadWitness ==
    \E m \in Machines :
        /\ ~failed[m]
        /\ Len(repairs[m]) >= 1
        /\ now = repairs[m][Len(repairs[m])][2]
        /\ next_failure_time[m] = now + TtfFloor

\* the machines whose Resource job j holds or waits for
Engaged(j) == {m \in Machines : j \in Elems(users[m]) \/ j \in Elems(put_queue[m])}

\* C20: a job visits the machines strictly in order and is engaged with at most
\* one Resource at a time (the one of its current stage): stage i is ended and
\* released before stage i+1 is requested, no job waits for one Resource while
\* holding another, and its completion is recorded only after the last stage
\* was acquired and ended.
StagesInOrder ==
    \A j \in JobIds :
        /\ Cardinality(Engaged(j)) <= 1
        /\ Engaged(j) \subseteq {jobs[j].i}
        /\ \A m \in Machines :
              /\ jobs[j].start_at[m] # NoTime =>
                     jobs[j].req_at[m] # NoTime /\ jobs[j].req_at[m] <= jobs[j].start_at[m]
              /\ jobs[j].end_at[m] # NoTime =>
                     /\ jobs[j].start_at[m] # NoTime
                     /\ jobs[j].start_at[m] <= jobs[j].end_at[m]
                     /\ m \notin Engaged(j)
              /\ (m > 1 /\ jobs[j].req_at[m] # NoTime) =>
                     /\ jobs[j].end_at[m - 1] # NoTime
                     /\ jobs[j].end_at[m - 1] <= jobs[j].req_at[m]
        /\ j \in Elems(completion_order) =>
              /\ \A m \in Machines : jobs[j].end_at[m] # NoTime
              /\ Engaged(j) = {}

\* a job holds the second machine, having ended its first stage, while another
\* job holds the first machine
StagesInOrderWitness ==
    \E j, k \in JobIds :
        /\ j # k
        /\ j \in Elems(users[2])
        /\ jobs[j].end_at[1] # NoTime
        /\ k \in Elems(users[1])

\* C19: for every machine, busy_time + downtime never exceeds the current
\* virtual time.
BusyPlusDownWithinClock ==
    \A m \in Machines : busy_time[m] + downtime[m] <= now

\* the jobs that have ended stage m, and the sum of their drawn durations
EndedStage(m) == {j \in JobIds : jobs[j].end_at[m] # NoTime}

RECURSIVE SumProcs(_, _)
SumProcs(m, S) ==
    IF S = {} THEN 0
    ELSE LET j == CHOOSE x \in S : TRUE
         IN  jobs[j].procs[m] + SumProcs(m, S \ {j})

\* C16: busy_time of a machine changes only in the step in which its holder
\* finishes the full processing amount of the stage (nothing remains), then by
\* exactly the stage's drawn duration, and the holder leaves the users only in
\* such a step; partial steps, stalls and failures leave busy_time unchanged,
\* and busy_time is always the sum of the durations of the ended stages.
BusyCreditedOnFullStage ==
    /\ [](\A m \in Machines : busy_time[m] = SumProcs(m, EndedStage(m)))
    /\ [][\A m \in Machines :
             (busy_time'[m] # busy_time[m] \/ Elems(users[m]) \ Elems(users'[m]) # {})
                 => \E j \in Elems(users[m]) :
                       /\ j \notin Elems(users'[m])
                       /\ jobs'[j].remaining = 0
                       /\ jobs[j].end_at[m] = NoTime
                       /\ jobs'[j].end_at[m] = now'
                       /\ busy_time'[m] = busy_time[m] + jobs[j].procs[m]]_vars

\* C17: every drawn duration that is waited on is strictly positive: the
\* processing time of every stage entered, and the length of every repair
\* interval (no repair ends at the instant it started).
DurationsPositive ==
    /\ \A j \in JobIds : \A m \in Machines :
           jobs[j].req_at[m] # NoTime => jobs[j].procs[m] > 0
    /\ \A m \in Machines : \A k \in 1..Len(repairs[m]) :
           repairs[m][k][2] > repairs[m][k][1]

\* the latest repair interval of machine m: its start and its planned end
LastRepair(m) == repairs[m][Len(repairs[m])]

\* C15: every machine starts Up and alternates between Up and Failed: it fails
\* exactly when the clock is at next_failure_time (and is never Up past it), it
\* returns to Up exactly the drawn repair duration after the failure, at that
\* step downtime grows by exactly that duration and a new, later
\* next_failure_time is set; no other step changes failed, downtime or
\* next_failure_time, whether the machine is idle or held by a job.
FailureRepairLifecycle ==
    /\ \A m \in Machines : ~failed[m] /\ downtime[m] = 0 /\ repairs[m] = <<>>
    /\ [](\A m \in Machines :
             IF failed[m]
             THEN /\ Len(repairs[m]) >= 1
                  /\ LastRepair(m)[1] = down_start[m]
                  /\ now <= LastRepair(m)[2]
             ELSE now <= next_failure_time[m])
    /\ [][\A m \in Machines :
             /\ (~failed[m] /\ failed'[m]) =>
                    /\ now' = next_failure_time[m]
                    /\ Len(repairs'[m]) = Len(repairs[m]) + 1
                    /\ repairs'[m][Len(repairs'[m])][1] = now'
                    /\ downtime'[m] = downtime[m]
                    /\ next_failure_time'[m] = next_failure_time[m]
             /\ (failed[m] /\ ~failed'[m]) =>
                    /\ now' = LastRepair(m)[2]
                    /\ downtime'[m] = downtime[m] + (LastRepair(m)[2] - LastRepair(m)[1])
                    /\ next_failure_time'[m] > now'
                    /\ repairs'[m] = repairs[m]
             /\ (failed'[m] = failed[m]) =>
                    /\ downtime'[m] = downtime[m]
                    /\ next_failure_time'[m] = next_failure_time[m]
                    /\ repairs'[m] = repairs[m]]_vars

\* a machine held by a job is Up again after a failure and a repair of
\* positive length
FailureRepairLifecycleWitness ==
    \E m \in Machines :
        /\ ~failed[m]
        /\ Len(repairs[m]) >= 1
        /\ downtime[m] > 0
        /\ \E j \in JobIds : InLoop(j, m) /\ jobs[j].start_at[m] < LastRepair(m)[1]

\* job j has found its machine failed and waits for its next look at it
Stalled(j) == jobs[j].pc = "stalled"

\* C14 as claimed: a job that holds a Resource with processing time remaining
\* never sits idle while its machine is Up: it resumes at the virtual time the
\* machine returns to Up, so no time passes with the job stalled on an Up
\* machine.
ResumesAtRepairEnd ==
    [][\A j \in JobIds :
          (Stalled(j) /\ ~failed[jobs[j].i]) => now' = now]_vars

\* C14, amended: a stalled job looks at its machine again every 0.1 minute and
\* leaves the stall exactly at a look that finds the machine Up; while it is
\* stalled on an Up machine, at most 0.1 minute has passed since the repair
\* ended.
ResumesAtNextRecheck ==
    /\ [](\A j \in JobIds :
             (Stalled(j) /\ ~failed[jobs[j].i]) =>
                 /\ Len(repairs[jobs[j].i]) >= 1
                 /\ now - LastRepair(jobs[j].i)[2] <= RecheckDelay)
    /\ [][\A j \in JobIds :
             Stalled(j) =>
                 /\ (now' - now) <= RecheckDelay
                 /\ (queue # <<>> /\ Head(queue).kind = "job_to" /\ Head(queue).id = j) =>
                        (Stalled(j)' <=> failed[jobs[j].i])
                 /\ ~(queue # <<>> /\ Head(queue).kind = "job_to" /\ Head(queue).id = j) =>
                        (Stalled(j)' /\ jobs'[j].remaining = jobs[j].remaining)]_vars

\* a job is still stalled on a machine that returned to Up earlier
ResumesAtNextRecheckWitness ==
    \E j \in JobIds :
        /\ Stalled(j)
        /\ ~failed[jobs[j].i]
        /\ Len(repairs[jobs[j].i]) >= 1
        /\ queue # <<>>
        /\ Head(queue).time > LastRepair(jobs[j].i)[2]

\* C11: two calls of run_simulation_once with the same params, horizon and
\* seed return the same record, whatever ran before the first of them: when
\* the second call has ended, its record is the one the first call returned.
SameArgumentsSameResult ==
    (run = 2 /\ done) => <<Result>> = first_result

\* the same for the calls that pass a seed
SameSeedSameResult ==
    (run = 2 /\ done /\ seed # NoSeed) => <<Result>> = first_result

\* C12: with params that are not valid (an mttf or mttr sequence of the wrong
\* length, a non-positive arrival_rate, mttf or mttr) no event is ever
\* scheduled: neither a monitor nor the generator is started, env.run is not
\* entered and the call does not return a record.
ConfigErrorsBeforeEvents ==
    params # ValidParams => (queue = <<>> /\ ~entered /\ ~done)

====
